---- MODULE Spec2Model ----
(***************************************************************************)
(* ContextualChunker.chunk of contextual_rag_lambda.py (the deployed copy) *)
(* and of test.py (the hardened copy with the try/except fallback).        *)
(*                                                                         *)
(* A text is a sequence of tokens: a token is either one whitespace        *)
(* character or one whole word.  Words are never adjacent without          *)
(* whitespace between them, so str.split() keeps exactly the word tokens.  *)
(* The k-th word of a document is the token ToString(k): all words are     *)
(* distinct, which is the most general case, since the chunker never       *)
(* looks inside a word.                                                    *)
(***************************************************************************)
EXTENDS Integers, Sequences, FiniteSets, TLC

VARIABLES
    PARENT_CHUNK_SIZE,      \* module constant (words per parent window)
    CHILD_CHUNK_SIZE,       \* module constant (words per child window)
    CHUNK_OVERLAP,          \* module constant (words of overlap)
    copy,                   \* "lambda" (contextual_rag_lambda.py) or "test" (test.py)
    text,                   \* the argument of chunk
    pc,                     \* position in the program
    words,                  \* text.split()
    parent_chunks,          \* list of parent window texts
    i,                      \* loop variable of both range loops
    p_idx,                  \* number of parent windows already processed
    parent_words,           \* parent_chunk.split()
    child_chunk,            \* text of the child window being enriched
    request,                \* the invoke_model call in flight, if any
    contextualized_chunks,  \* the result list
    error,                  \* the exception that left chunk, if any
    calls                   \* log of the external calls issued so far

vars == <<PARENT_CHUNK_SIZE, CHILD_CHUNK_SIZE, CHUNK_OVERLAP, copy, text, pc,
          words, parent_chunks, i, p_idx, parent_words, child_chunk, request,
          contextualized_chunks, error, calls>>

config == <<PARENT_CHUNK_SIZE, CHILD_CHUNK_SIZE, CHUNK_OVERLAP, copy, text>>

----------------------------------------------------------------------------
(* Bounds of the model *)

MaxWordsLambda == 1100   \* longest document given to the deployed copy
MaxWordsTest == 130      \* longest document given to the test copy
MaxWordsRagged == 130    \* longest document with ragged whitespace
MaxParam == 6            \* largest child size and overlap of a drawn configuration
MaxParamWords == 6       \* longest document and parent size of a drawn configuration

----------------------------------------------------------------------------
(* Helpers *)

Min(a, b) == IF a < b THEN a ELSE b
Max(a, b) == IF a > b THEN a ELSE b

Whitespace == {" ", "\n", "\t"}

Completions == {"ctxA", "ctxB"}

FALLBACK == "[fallback context]"

NoRequest == [document |-> <<>>, chunk |-> <<>>]

\* str.split(): the maximal runs of non-whitespace, in order.
Split(t) == SelectSeq(t, LAMBDA c : c \notin Whitespace)

\* ' '.join(ws): the words with one space between neighbours.
Join(ws) ==
    IF Len(ws) = 0 THEN <<>>
    ELSE [k \in 1..(2 * Len(ws) - 1) |->
            IF k % 2 = 1 THEN ws[(k + 1) \div 2] ELSE " "]

\* The bounds of the Python slice s[a:b], as 0-based half-open indices.
SliceLo(len, a) == IF a < 0 THEN Max(a + len, 0) ELSE Min(a, len)
SliceHi(len, b) == IF b < 0 THEN Max(b + len, 0) ELSE Min(b, len)

\* The Python slice s[a:b].
PySlice(s, a, b) ==
    LET lo == SliceLo(Len(s), a)
        hi == SliceHi(Len(s), b)
    IN  IF lo >= hi THEN <<>> ELSE SubSeq(s, lo + 1, hi)

\* range(0, stop, step) raises ValueError for a zero step.
RangeRaises(step) == step = 0

\* v is a value range(0, stop, step) yields, for v a multiple of step.
RangeHas(v, stop, step) == step > 0 /\ v < stop

\* Variant of Format: the context is put after the chunk.
FormatSwapped(context_info, chunk) == chunk \o <<"\n", "\n">> \o <<context_info>>

\* f"{context_info}\n\n{child_chunk}"
Format(context_info, chunk) == <<context_info>> \o <<"\n", "\n">> \o chunk

\* The two parts of a formatted chunk.
ContextOf(c) == c[1]
BodyOf(c) == SubSeq(c, 4, Len(c))

----------------------------------------------------------------------------
(* The arithmetic of the two loops of chunk *)

\* Variant of ParentEnd: the slice runs one word too far.
ParentEndOffByOne(v, n) == Min(v + PARENT_CHUNK_SIZE + 1, n)

\* end_idx of the parent loop.
ParentEnd(v, n) == Min(v + PARENT_CHUNK_SIZE, n)

\* The step of the child loop.
Stride == CHILD_CHUNK_SIZE - CHUNK_OVERLAP

\* Variant of StartIdx: the start is not pulled back.
StartIdxNoPullBack(v) == v

\* start_idx of the child loop.
StartIdx(v) == IF v > 0 THEN v - CHUNK_OVERLAP ELSE 0

\* Variant of EndIdx: the end is not capped at the parent's length.
EndIdxUncapped(v, n) == v + CHILD_CHUNK_SIZE

\* end_idx of the child loop.
EndIdx(v, n) == Min(v + CHILD_CHUNK_SIZE, n)

\* Variant of TooSmall: no candidate is ever skipped.
TooSmallNever(v, n) == FALSE

\* The test that skips a small trailing candidate.
TooSmall(v, n) == EndIdx(v, n) - StartIdx(v) < CHILD_CHUNK_SIZE \div 2 /\ v > 0

\* Variant of Hardened: no copy catches the exception.
HardenedNowhere == FALSE

\* The hardened copy catches every exception of the external call.
Hardened == copy = "test"

----------------------------------------------------------------------------
(* Documents *)

Word(k) == ToString(k)

\* A document of n words: single spaces, or ragged whitespace all around.
MakeText(n, layout) ==
    IF layout = "single" THEN Join([k \in 1..n |-> Word(k)])
    ELSE <<"\n">> \o
         [k \in 1..(3 * n) |->
            IF k % 3 = 1 THEN Word((k + 2) \div 3)
            ELSE IF k % 3 = 2 THEN " " ELSE "\t"]

Layouts == {"single", "ragged"}

\* The configuration of each copy: parent size, child size, overlap.
Configured ==
    {<<"lambda", 1024, 512, 30>>, <<"test", 100, 50, 10>>}

MaxWords(c) == IF c = "lambda" THEN MaxWordsLambda ELSE MaxWordsTest

\* The worked example of the specification: one parent window of 130 words.
Example == <<130, 50, 10, 130>>

----------------------------------------------------------------------------
(* Initial states *)

Start ==
    /\ pc = "new"
    /\ words = <<>>
    /\ parent_chunks = <<>>
    /\ i = 0
    /\ p_idx = 0
    /\ parent_words = <<>>
    /\ child_chunk = <<>>
    /\ request = NoRequest
    /\ contextualized_chunks = <<>>
    /\ error = "none"
    /\ calls = <<>>

\* Each copy with its own constants.
Init ==
    /\ \E c \in Configured :
          /\ copy = c[1]
          /\ PARENT_CHUNK_SIZE = c[2]
          /\ CHILD_CHUNK_SIZE = c[3]
          /\ CHUNK_OVERLAP = c[4]
          /\ \E n \in 0..MaxWords(c[1]), layout \in Layouts :
                /\ layout = "ragged" => n <= MaxWordsRagged
                /\ text = MakeText(n, layout)
    /\ Start

\* Either copy with the constants set to drawn values.
InitParam ==
    /\ copy \in {"lambda", "test"}
    /\ \/ /\ PARENT_CHUNK_SIZE \in 0..MaxParamWords
          /\ CHILD_CHUNK_SIZE \in 1..MaxParam
          /\ CHUNK_OVERLAP \in 0..MaxParam
          /\ \E n \in 0..MaxParamWords, layout \in Layouts :
                text = MakeText(n, layout)
       \/ /\ PARENT_CHUNK_SIZE = Example[1]
          /\ CHILD_CHUNK_SIZE = Example[2]
          /\ CHUNK_OVERLAP = Example[3]
          /\ text = MakeText(Example[4], "single")
    /\ Start

----------------------------------------------------------------------------
(* Actions *)

\* ContextualChunker(): neither copy looks at the constants.
Construct ==
    /\ pc = "new"
    /\ pc' = "ready"
    /\ UNCHANGED <<config, words, parent_chunks, i, p_idx, parent_words,
                   child_chunk, request, contextualized_chunks, error, calls>>

\* chunk(text) up to the first evaluation of the parent range.
ChunkBegin ==
    /\ pc = "ready"
    /\ contextualized_chunks' = <<>>
    /\ parent_chunks' = <<>>
    /\ words' = Split(text)
    /\ i' = 0
    /\ IF RangeRaises(PARENT_CHUNK_SIZE)
       THEN pc' = "raised" /\ error' = "ValueError"
       ELSE pc' = "parents" /\ error' = error
    /\ UNCHANGED <<config, p_idx, parent_words, child_chunk, request, calls>>

\* One iteration of the parent loop.
ParentStep ==
    /\ pc = "parents"
    /\ RangeHas(i, Len(words), PARENT_CHUNK_SIZE)
    /\ parent_chunks' =
          Append(parent_chunks, Join(PySlice(words, i, ParentEnd(i, Len(words)))))
    /\ i' = i + PARENT_CHUNK_SIZE
    /\ UNCHANGED <<config, pc, words, p_idx, parent_words, child_chunk, request,
                   contextualized_chunks, error, calls>>

\* The parent loop is over.
ParentsDone ==
    /\ pc = "parents"
    /\ ~RangeHas(i, Len(words), PARENT_CHUNK_SIZE)
    /\ pc' = "children"
    /\ p_idx' = 0
    /\ UNCHANGED <<config, words, parent_chunks, i, parent_words, child_chunk,
                   request, contextualized_chunks, error, calls>>

\* The next parent window: split it and evaluate the child range.
NextParent ==
    /\ pc = "children"
    /\ p_idx < Len(parent_chunks)
    /\ parent_words' = Split(parent_chunks[p_idx + 1])
    /\ i' = 0
    /\ IF RangeRaises(Stride)
       THEN pc' = "raised" /\ error' = "ValueError"
       ELSE pc' = "child" /\ error' = error
    /\ UNCHANGED <<config, words, parent_chunks, p_idx, child_chunk, request,
                   contextualized_chunks, calls>>

\* A candidate that is too small: continue.
ChildSkip ==
    /\ pc = "child"
    /\ RangeHas(i, Len(parent_words), Stride)
    /\ TooSmall(i, Len(parent_words))
    /\ i' = i + Stride
    /\ UNCHANGED <<config, pc, words, parent_chunks, p_idx, parent_words,
                   child_chunk, request, contextualized_chunks, error, calls>>

\* A candidate that is kept: build its text and issue the external call.
ChildCall ==
    /\ pc = "child"
    /\ RangeHas(i, Len(parent_words), Stride)
    /\ ~TooSmall(i, Len(parent_words))
    /\ LET n == Len(parent_words)
           chunk == Join(PySlice(parent_words, StartIdx(i), EndIdx(i, n)))
       IN  /\ child_chunk' = chunk
           /\ request' = [document |-> parent_chunks[p_idx + 1], chunk |-> chunk]
           /\ calls' = Append(calls,
                 [parent |-> p_idx + 1, i |-> i,
                  lo |-> SliceLo(n, StartIdx(i)),
                  hi |-> SliceHi(n, EndIdx(i, n)),
                  outcome |-> "pending"])
    /\ pc' = "call"
    /\ UNCHANGED <<config, words, parent_chunks, i, p_idx, parent_words,
                   contextualized_chunks, error>>

\* The child range of this parent is exhausted.
ChildrenDone ==
    /\ pc = "child"
    /\ ~RangeHas(i, Len(parent_words), Stride)
    /\ pc' = "children"
    /\ p_idx' = p_idx + 1
    /\ UNCHANGED <<config, words, parent_chunks, i, parent_words, child_chunk,
                   request, contextualized_chunks, error, calls>>

\* get_chunk_context returned context_info: format, append, next iteration.
\* The log keeps the completion of a call that succeeded, "failed" otherwise.
Returned(context_info, outcome) ==
    /\ contextualized_chunks' =
          Append(contextualized_chunks, Format(context_info, child_chunk))
    /\ calls' = [calls EXCEPT ![Len(calls)].outcome = outcome]
    /\ request' = NoRequest
    /\ i' = i + Stride
    /\ pc' = "child"
    /\ error' = error

\* get_chunk_context raised: the exception leaves chunk.
Propagated(exception) ==
    /\ calls' = [calls EXCEPT ![Len(calls)].outcome = "failed"]
    /\ request' = NoRequest
    /\ pc' = "raised"
    /\ error' = exception
    /\ UNCHANGED <<i, contextualized_chunks>>

\* A failure inside get_chunk_context.
Failed(exception) ==
    IF Hardened THEN Returned(FALLBACK, "failed") ELSE Propagated(exception)

\* The external call answers with a completion.
CallSucceeds ==
    /\ pc = "call"
    /\ \E c \in Completions : Returned(c, c)
    /\ UNCHANGED <<config, words, parent_chunks, p_idx, parent_words, child_chunk>>

\* invoke_model raises.
CallRaises ==
    /\ pc = "call"
    /\ Failed("exception")
    /\ UNCHANGED <<config, words, parent_chunks, p_idx, parent_words, child_chunk>>

\* The response body is no JSON.
CallMalformed ==
    /\ pc = "call"
    /\ Failed("malformed")
    /\ UNCHANGED <<config, words, parent_chunks, p_idx, parent_words, child_chunk>>

\* The response has no content[0].text.
CallMissingField ==
    /\ pc = "call"
    /\ Failed("missing")
    /\ UNCHANGED <<config, words, parent_chunks, p_idx, parent_words, child_chunk>>

\* return contextualized_chunks
Return ==
    /\ pc = "children"
    /\ p_idx >= Len(parent_chunks)
    /\ pc' = "done"
    /\ UNCHANGED <<config, words, parent_chunks, i, p_idx, parent_words,
                   child_chunk, request, contextualized_chunks, error, calls>>

Next ==
    \/ Construct
    \/ ChunkBegin
    \/ ParentStep
    \/ ParentsDone
    \/ NextParent
    \/ ChildSkip
    \/ ChildCall
    \/ ChildrenDone
    \/ CallSucceeds
    \/ CallRaises
    \/ CallMalformed
    \/ CallMissingField
    \/ Return

Spec == Init /\ [][Next]_vars

ParamSpec == InitParam /\ [][Next]_vars

----------------------------------------------------------------------------
(* chunk as a function of the text, when no exception leaves it *)

\* The parent loop: the list of parent window texts of the word list ws.
RECURSIVE SplitParent(_, _)
SplitParent(ws, v) ==
    IF ~RangeHas(v, Len(ws), PARENT_CHUNK_SIZE) THEN <<>>
    ELSE <<Join(PySlice(ws, v, ParentEnd(v, Len(ws))))>>
         \o SplitParent(ws, v + PARENT_CHUNK_SIZE)

\* The child loop: the list of child window texts of the parent words pw.
RECURSIVE SplitChild(_, _)
SplitChild(pw, v) ==
    IF ~RangeHas(v, Len(pw), Stride) THEN <<>>
    ELSE IF TooSmall(v, Len(pw)) THEN SplitChild(pw, v + Stride)
    ELSE <<Join(PySlice(pw, StartIdx(v), EndIdx(v, Len(pw))))>>
         \o SplitChild(pw, v + Stride)

\* The child window texts of all the parents from the p-th on, in order.
RECURSIVE ChildTexts(_, _)
ChildTexts(parents, p) ==
    IF p > Len(parents) THEN <<>>
    ELSE SplitChild(Split(parents[p]), 0) \o ChildTexts(parents, p + 1)

----------------------------------------------------------------------------
(* Vocabulary of the properties *)

Done == pc = "done"

\* Number of words of the p-th parent window.
ParentLen(p) == Len(Split(parent_chunks[p]))

\* The calls issued for the p-th parent window, in order.
WindowsOf(p) == SelectSeq(calls, LAMBDA c : c.parent = p)

\* Number of words of a logged child window.
Size(c) == c.hi - c.lo

\* Number of word indices two logged windows have in common.
Shared(c, d) == Max(0, Min(c.hi, d.hi) - Max(c.lo, d.lo))

\* The words lo+1..hi of the document, as a text.
WordsText(lo, hi) == Join([k \in 1..(hi - lo) |-> Word(lo + k)])

IsExample ==
    /\ PARENT_CHUNK_SIZE = Example[1]
    /\ CHILD_CHUNK_SIZE = Example[2]
    /\ CHUNK_OVERLAP = Example[3]
    /\ Len(Split(text)) = Example[4]

ValidOverlap == CHILD_CHUNK_SIZE >= 1 /\ CHUNK_OVERLAP >= 0 /\ CHUNK_OVERLAP < CHILD_CHUNK_SIZE

----------------------------------------------------------------------------
(* C1: when chunk has returned, every word index 0..W-1 of every parent    *)
(* window lies inside at least one emitted child window.                   *)
C1_NoGaps ==
    Done =>
        \A p \in 1..Len(parent_chunks) :
            \A k \in 0..(ParentLen(p) - 1) :
                \E n \in 1..Len(calls) :
                    /\ calls[n].parent = p
                    /\ calls[n].lo <= k
                    /\ k < calls[n].hi

(* C2: two consecutively emitted child windows of one parent share exactly *)
(* CHUNK_OVERLAP word indices whenever both have at least CHUNK_OVERLAP    *)
(* words.                                                                  *)
C2_OverlapWidth ==
    \A n \in 1..(Len(calls) - 1) :
        ( /\ calls[n].parent = calls[n + 1].parent
          /\ Size(calls[n]) >= CHUNK_OVERLAP
          /\ Size(calls[n + 1]) >= CHUNK_OVERLAP )
        => Shared(calls[n], calls[n + 1]) = CHUNK_OVERLAP

(* C3: every child window the loop builds has at most CHILD_CHUNK_SIZE     *)
(* words.                                                                  *)
C3_ChildSizeBound ==
    /\ Len(Split(child_chunk)) <= CHILD_CHUNK_SIZE
    /\ \A n \in 1..Len(calls) : Size(calls[n]) <= CHILD_CHUNK_SIZE

(* C4: once the parent loop is over, the parent windows are consecutive    *)
(* slices of the word sequence of the text: all but the last have exactly  *)
(* PARENT_CHUNK_SIZE words, the last has 1..PARENT_CHUNK_SIZE words, and   *)
(* their word sequences concatenated in order are the word sequence of the *)
(* text.                                                                   *)
C4_ParentPartition ==
    pc \in {"children", "done"} =>
        LET ws == Split(text)
            m == Len(parent_chunks)
        IN  /\ \A p \in 1..m :
                  LET pw == Split(parent_chunks[p])
                  IN  /\ Len(pw) >= 1
                      /\ Len(pw) <= PARENT_CHUNK_SIZE
                      /\ p < m => Len(pw) = PARENT_CHUNK_SIZE
                      /\ (p - 1) * PARENT_CHUNK_SIZE + Len(pw) <= Len(ws)
                      /\ \A k \in 1..Len(pw) :
                            pw[k] = ws[(p - 1) * PARENT_CHUNK_SIZE + k]
            /\ Len(ws) = IF m = 0 THEN 0
                         ELSE (m - 1) * PARENT_CHUNK_SIZE + ParentLen(m)

C4_Witness ==
    /\ Done
    /\ copy = "lambda"
    /\ Len(parent_chunks) = 2
    /\ ParentLen(2) < PARENT_CHUNK_SIZE

(* C5: an emitted child window with fewer than CHILD_CHUNK_SIZE // 2 words *)
(* is the only child window emitted for its parent.                        *)
C5_MinChildSize ==
    \A n \in 1..Len(calls) :
        Size(calls[n]) < CHILD_CHUNK_SIZE \div 2 =>
            \A k \in 1..Len(calls) : calls[k].parent = calls[n].parent => k = n

\* A returned run with a small only child and, in another parent, a
\* candidate that was left out.
C5_Witness ==
    /\ Done
    /\ \E n \in 1..Len(calls) : Size(calls[n]) < CHILD_CHUNK_SIZE \div 2
    /\ \E p \in 1..Len(parent_chunks) :
          LET w == ParentLen(p)
          IN  \E v \in 1..(w - 1) : v % Stride = 0 /\ TooSmall(v, w)

(* C6 as stated: with 0 <= overlap < child_size, a parent window of at     *)
(* most child_size words yields exactly one child window, the whole parent.*)
C6_ShortParentOneChild ==
    (Done /\ ValidOverlap) =>
        \A p \in 1..Len(parent_chunks) :
            ParentLen(p) <= CHILD_CHUNK_SIZE =>
                /\ Len(WindowsOf(p)) = 1
                /\ WindowsOf(p)[1].lo = 0
                /\ WindowsOf(p)[1].hi = ParentLen(p)

\* The overlaps for which the trailing candidate of a short parent is small.
LowOverlap == CHUNK_OVERLAP = 0 \/ 2 * CHUNK_OVERLAP < CHILD_CHUNK_SIZE \div 2

(* C6 amended: the same, for the overlaps with overlap = 0 or              *)
(* 2 * overlap < child_size // 2.                                          *)
C6_ShortParentOneChildLowOverlap ==
    (Done /\ ValidOverlap /\ LowOverlap) =>
        \A p \in 1..Len(parent_chunks) :
            ParentLen(p) <= CHILD_CHUNK_SIZE =>
                /\ Len(WindowsOf(p)) = 1
                /\ WindowsOf(p)[1].lo = 0
                /\ WindowsOf(p)[1].hi = ParentLen(p)
                /\ \A n \in 1..Len(calls) :
                      calls[n].parent = p =>
                          BodyOf(contextualized_chunks[n])
                             = Join(Split(parent_chunks[p]))

\* A short parent with a positive overlap whose second candidate was reached.
C6_Witness ==
    /\ Done
    /\ ValidOverlap
    /\ LowOverlap
    /\ CHUNK_OVERLAP > 0
    /\ Len(parent_chunks) >= 1
    /\ ParentLen(1) <= CHILD_CHUNK_SIZE
    /\ ParentLen(1) > Stride

(* C7 as stated: the example yields the windows [w1..w50], [w31..w90] and  *)
(* [w71..w120], and w121..w130 are in no window.                           *)
C7_WorkedExample ==
    (Done /\ IsExample) =>
        /\ Len(calls) = 3
        /\ <<calls[1].lo, calls[1].hi>> = <<0, 50>>
        /\ <<calls[2].lo, calls[2].hi>> = <<30, 90>>
        /\ <<calls[3].lo, calls[3].hi>> = <<70, 120>>
        /\ \A n \in 1..Len(calls) : calls[n].i # 120
        /\ \A k \in 120..129 : \A n \in 1..Len(calls) : ~(calls[n].lo <= k /\ k < calls[n].hi)

(* C7 amended: the example yields the windows [w1..w50], [w31..w90] and    *)
(* [w71..w130]; the candidate at i = 120 is left out; every word w1..w130  *)
(* is in a window.                                                         *)
C7_WorkedExampleAsCoded ==
    (Done /\ IsExample) =>
        /\ Len(calls) = 3
        /\ Len(contextualized_chunks) = 3
        /\ BodyOf(contextualized_chunks[1]) = WordsText(0, 50)
        /\ BodyOf(contextualized_chunks[2]) = WordsText(30, 90)
        /\ BodyOf(contextualized_chunks[3]) = WordsText(70, 130)
        /\ <<calls[1].i, calls[2].i, calls[3].i>> = <<0, 40, 80>>
        /\ TooSmall(120, 130)
        /\ \A k \in 1..130 :
              \E n \in 1..3 :
                  \E j \in 1..Len(contextualized_chunks[n]) :
                      contextualized_chunks[n][j] = Word(k)

C7_Witness == Done /\ IsExample /\ copy = "lambda"

(* C8: a configuration with CHUNK_OVERLAP >= CHILD_CHUNK_SIZE is rejected  *)
(* when the chunker is constructed: chunk never runs under it.             *)
C8_ConfigValidated ==
    CHUNK_OVERLAP >= CHILD_CHUNK_SIZE => pc \in {"new", "rejected"}

(* C9: in the hardened copy no failure of the external call leaves chunk,  *)
(* which can always take a step until it has returned;                     *)
(* the returned chunks carry, in order, the child texts of a run without   *)
(* failures; the context of a chunk is the fallback string when its call   *)
(* failed and the returned completion when it succeeded.                   *)
C9_DegradedNeverAborts ==
    copy = "test" =>
        /\ pc # "raised"
        /\ Done \/ ENABLED Next
        /\ Len(contextualized_chunks) <= Len(calls)
        /\ \A n \in 1..Len(contextualized_chunks) :
              ContextOf(contextualized_chunks[n]) =
                  IF calls[n].outcome = "failed" THEN FALLBACK
                  ELSE calls[n].outcome
        /\ Done =>
              [n \in 1..Len(contextualized_chunks) |->
                    BodyOf(contextualized_chunks[n])]
                 = ChildTexts(SplitParent(Split(text), 0), 1)

C9_Witness ==
    /\ Done
    /\ copy = "test"
    /\ Len(contextualized_chunks) = 4
    /\ calls[1].outcome = "failed"
    /\ calls[2].outcome \in Completions
    /\ calls[3].outcome = "failed"
    /\ calls[4].outcome \in Completions /\ calls[4].outcome # calls[2].outcome

\* The candidates of a parent window of w words that are not left out.
Kept(w) == {v \in 0..(w - 1) : v % Stride = 0 /\ ~TooSmall(v, w)}

\* The text of a logged child window.
TextOf(c) == Join(PySlice(Split(parent_chunks[c.parent]), c.lo, c.hi))

(* C10: one call per emitted child and none for a candidate left out; the  *)
(* calls come in parent-major, child-minor order, each with its own parent *)
(* window as background; at most one call is in flight and nothing is      *)
(* appended while it is; when chunk has returned or raised, the k-th chunk *)
(* is the k-th call's completion, "\n\n" and the k-th child text, and each *)
(* finished parent has as many calls as candidates that were not left out. *)
C10_OneCallPerChild ==
    /\ Len(calls) = Len(contextualized_chunks)
                    + (IF pc = "call" \/ (pc = "raised" /\ error # "ValueError")
                       THEN 1 ELSE 0)
    /\ \A n \in 1..Len(calls) :
          /\ calls[n].outcome = "pending" <=> (n = Len(calls) /\ pc = "call")
          /\ n < Len(calls) =>
                \/ calls[n].parent < calls[n + 1].parent
                \/ /\ calls[n].parent = calls[n + 1].parent
                   /\ calls[n].i < calls[n + 1].i
    /\ pc = "call" =>
          /\ request.document = parent_chunks[calls[Len(calls)].parent]
          /\ request.chunk = TextOf(calls[Len(calls)])
    /\ pc # "call" => request = NoRequest
    /\ pc \in {"done", "raised"} =>
          /\ \A n \in 1..Len(contextualized_chunks) :
                contextualized_chunks[n]
                   = << IF calls[n].outcome \in Completions
                        THEN calls[n].outcome
                        ELSE ContextOf(contextualized_chunks[n]),
                        "\n", "\n" >> \o TextOf(calls[n])
          /\ \A p \in 1..Len(parent_chunks) :
                LET w == ParentLen(p)
                    issued == {calls[n].i : n \in {k \in 1..Len(calls) : calls[k].parent = p}}
                IN  /\ issued \subseteq Kept(w)
                    /\ Len(WindowsOf(p)) = Cardinality(issued)
                    /\ (Done \/ p <= p_idx) => issued = Kept(w)

C10_Witness ==
    /\ Done
    /\ copy = "lambda"
    /\ Len(parent_chunks) = 2
    /\ Len(contextualized_chunks) = 3
    /\ \E p \in 1..2 : Cardinality(Kept(ParentLen(p))) * Stride < ParentLen(p)

====
